---- MODULE Spec2Model ----
(***************************************************************************)
(* Model of Cantera's UnityLewisTransport                                  *)
(* (include/cantera/transport/UnityLewisTransport.h).                      *)
(*                                                                         *)
(* The class owns no data member of its own.  It reads the mixture         *)
(* thermal conductivity of its base class and the density and mass         *)
(* specific heat of the phase m_thermo, and writes one quotient into the   *)
(* first m_nsp slots of a caller-supplied array.                           *)
(*                                                                         *)
(* A double is modelled as a binary floating-point number <<m, e>> of      *)
(* value m * 2^e whose significand m has MantBits bits, with every         *)
(* arithmetic result rounded to nearest, ties to even.                     *)
(***************************************************************************)
EXTENDS Integers, Naturals, Sequences, FiniteSets, TLC

\* ---- bounds of the model ------------------------------------------------
MantBits == 3
MaxLambda == 2
MaxRho == 2
MaxCp == 2
MaxNsp == 2

VARIABLES
    lambda,     \* value thermalConductivity() of the base model yields
    rho,        \* value m_thermo->density() yields
    cp,         \* value m_thermo->cp_mass() yields
    m_nsp,      \* number of species, fixed once the object is initialised
    d,          \* the caller's output array, BufLen doubles
    last,       \* the call that has just returned to the caller, if any
    ref,        \* history: one earlier call the observer remembered
    stable,     \* history: phase state untouched since the call in ref
    moleSince   \* history: getMixDiffCoeffsMole ran after the call in ref

vars == <<lambda, rho, cp, m_nsp, d, last, ref, stable, moleSince>>

\* ---- double arithmetic --------------------------------------------------
Pow2(n) == 2 ^ n

\* n/d * 2^e (n, d non-negative integers, d > 0) rounded to MantBits bits.
RECURSIVE Round(_, _, _)
Round(n, dd, e) ==
    IF n = 0 THEN <<0, 0>>
    ELSE IF n >= dd * Pow2(MantBits) THEN Round(n, 2 * dd, e + 1)
    ELSE IF n < dd * Pow2(MantBits - 1) THEN Round(2 * n, dd, e - 1)
    ELSE LET q  == n \div dd
             r  == n % dd
             up == (2 * r > dd) \/ (2 * r = dd /\ q % 2 = 1)
             q2 == IF up THEN q + 1 ELSE q
         IN  IF q2 = Pow2(MantBits) THEN <<Pow2(MantBits - 1), e + 1>>
             ELSE <<q2, e>>

FromInt(i) == Round(i, 1, 0)
fmul(a, b) == Round(a[1] * b[1], 1, a[2] + b[2])
fdiv(a, b) == Round(a[1], b[1], a[2] - b[2])

\* ---- the collaborators the class reads ----------------------------------
thermalConductivity == lambda
density == rho
cp_mass == cp

Lambdas == {FromInt(i) : i \in 1..MaxLambda}
Rhos == {FromInt(2 * i - 1) : i \in 1..MaxRho}
Cps == {FromInt(i) : i \in 1..MaxCp}

\* ---- the caller's array -------------------------------------------------
BufLen == MaxNsp + 1
Fills == {FromInt(5)}

NoCall == [op |-> "none", status |-> "none", value |-> "none"]
NoRef == [op |-> "none", status |-> "none", value |-> "none",
          snap |-> <<FromInt(0), FromInt(0), FromInt(0)>>,
          out |-> [k \in 0..(-1) |-> FromInt(0)]]

Accessors == {"getMixDiffCoeffs", "getMixDiffCoeffsMass"}

\* What the observer records of the call that has just returned: its outcome,
\* the phase state it ran in and, for a call that returns coefficients, the
\* first m_nsp slots of the array as the call left them.
Capture == [op |-> last.op, status |-> last.status, value |-> last.value,
            snap |-> <<lambda, rho, cp>>,
            out |-> IF last.op \in Accessors
                    THEN [k \in 0..(m_nsp - 1) |-> d[k]]
                    ELSE [k \in 0..(-1) |-> FromInt(0)]]

\* History bookkeeping done when the call in `last` stops being the latest.
\* changed: the step alters the phase state.
Observe(changed) ==
    \/ /\ last.op # "none"
       /\ ref' = Capture
       /\ stable' = ~changed
       /\ moleSince' = FALSE
    \/ /\ ref' = ref
       /\ stable' = IF ref.op = "none" THEN stable ELSE (stable /\ ~changed)
       /\ moleSince' = IF ref.op = "none" THEN moleSince
                       ELSE (moleSince \/ last.op = "getMixDiffCoeffsMole")

Init ==
    /\ lambda \in Lambdas
    /\ rho \in Rhos
    /\ cp \in Cps
    /\ m_nsp \in 0..MaxNsp
    /\ \E f \in Fills : d = [k \in 0..(BufLen - 1) |-> f]
    /\ last = NoCall
    /\ ref = NoRef
    /\ stable = TRUE
    /\ moleSince = FALSE

\* ---- UnityLewisTransport ------------------------------------------------
\* Variant: the label of the base class MixTransport is returned.
transportModel_return_base == "Mix"

transportModel_return == "UnityLewis"

transportModel ==
    /\ last' = [op |-> "transportModel", status |-> "ok",
                value |-> transportModel_return]
    /\ Observe(FALSE)
    /\ UNCHANGED <<lambda, rho, cp, m_nsp, d>>

\* The local table of getMixDiffCoeffs: 53 double literals converted to int.
\* It is never read.
arr == [i \in 0..52 |->
          IF i \in (15..26) \cup {28, 29, 37, 40, 41} \cup (43..46) \cup (49..52)
          THEN 1 ELSE 0]

\* Variant: the parentheses of the divisor are lost.
getMixDiffCoeffs_Dm_noparen ==
    fmul(fdiv(thermalConductivity, density), cp_mass)

\* Variant: a member counts the calls, and a repeated call scales its result.
getMixDiffCoeffs_Dm_drift ==
    IF last.op = "getMixDiffCoeffs"
    THEN fdiv(fdiv(thermalConductivity, fmul(density, cp_mass)), FromInt(2))
    ELSE fdiv(thermalConductivity, fmul(density, cp_mass))

\* Variant: a failed getMixDiffCoeffsMole leaves an error flag behind that
\* the next call takes for its own.
getMixDiffCoeffs_Dm_afterMole ==
    IF last.op = "getMixDiffCoeffsMole"
    THEN FromInt(0)
    ELSE fdiv(thermalConductivity, fmul(density, cp_mass))

getMixDiffCoeffs_Dm ==
    fdiv(thermalConductivity, fmul(density, cp_mass))

RECURSIVE getMixDiffCoeffs_loop(_, _, _)
getMixDiffCoeffs_loop(buf, k, Dm) ==
    IF k < m_nsp
    THEN getMixDiffCoeffs_loop([buf EXCEPT ![k] = Dm], k + 1, Dm)
    ELSE buf

\* Variant: the loop counts m_nsp down instead of counting k up.
getMixDiffCoeffs_countdown ==
    /\ d' = getMixDiffCoeffs_loop(d, 0, getMixDiffCoeffs_Dm)
    /\ m_nsp' = 0
    /\ last' = [op |-> "getMixDiffCoeffs", status |-> "ok", value |-> "void"]
    /\ Observe(FALSE)
    /\ UNCHANGED <<lambda, rho, cp>>

getMixDiffCoeffs ==
    /\ d' = getMixDiffCoeffs_loop(d, 0, getMixDiffCoeffs_Dm)
    /\ last' = [op |-> "getMixDiffCoeffs", status |-> "ok", value |-> "void"]
    /\ Observe(FALSE)
    /\ UNCHANGED <<lambda, rho, cp, m_nsp>>

\* Variant: zeros are handed out before the error is raised.
getMixDiffCoeffsMole_zeros ==
    /\ d' = [k \in DOMAIN d |-> IF k < m_nsp THEN FromInt(0) ELSE d[k]]
    /\ last' = [op |-> "getMixDiffCoeffsMole",
                status |-> "NotImplementedError",
                value |-> "UnityLewisTransport::getMixDiffCoeffsMole"]
    /\ Observe(FALSE)
    /\ UNCHANGED <<lambda, rho, cp, m_nsp>>

getMixDiffCoeffsMole ==
    /\ last' = [op |-> "getMixDiffCoeffsMole",
                status |-> "NotImplementedError",
                value |-> "UnityLewisTransport::getMixDiffCoeffsMole"]
    /\ Observe(FALSE)
    /\ UNCHANGED <<lambda, rho, cp, m_nsp, d>>

\* Variant: the divisor is applied factor by factor, in the wrong direction.
getMixDiffCoeffsMass_Dm_noparen ==
    fmul(fdiv(thermalConductivity, density), cp_mass)

\* Variant: the quotient of an earlier call is kept and handed out again.
getMixDiffCoeffsMass_Dm_cached ==
    IF ref.op \in Accessors /\ m_nsp > 0
    THEN ref.out[0]
    ELSE fdiv(thermalConductivity, fmul(density, cp_mass))

getMixDiffCoeffsMass_Dm ==
    fdiv(thermalConductivity, fmul(density, cp_mass))

\* Variant: the loop bound is off by one.
RECURSIVE getMixDiffCoeffsMass_loop_offbyone(_, _, _)
getMixDiffCoeffsMass_loop_offbyone(buf, k, Dm) ==
    IF k <= m_nsp
    THEN getMixDiffCoeffsMass_loop_offbyone([buf EXCEPT ![k] = Dm], k + 1, Dm)
    ELSE buf

RECURSIVE getMixDiffCoeffsMass_loop(_, _, _)
getMixDiffCoeffsMass_loop(buf, k, Dm) ==
    IF k < m_nsp
    THEN getMixDiffCoeffsMass_loop([buf EXCEPT ![k] = Dm], k + 1, Dm)
    ELSE buf

\* Variant: the mass-basis accessor is left unimplemented as well.
getMixDiffCoeffsMass_throws ==
    /\ last' = [op |-> "getMixDiffCoeffsMass",
                status |-> "NotImplementedError",
                value |-> "UnityLewisTransport::getMixDiffCoeffsMass"]
    /\ Observe(FALSE)
    /\ UNCHANGED <<lambda, rho, cp, m_nsp, d>>

getMixDiffCoeffsMass ==
    /\ d' = getMixDiffCoeffsMass_loop(d, 0, getMixDiffCoeffsMass_Dm)
    /\ last' = [op |-> "getMixDiffCoeffsMass", status |-> "ok", value |-> "void"]
    /\ Observe(FALSE)
    /\ UNCHANGED <<lambda, rho, cp, m_nsp>>

\* ---- the environment: one quantity of the phase takes another valid value -
PhaseStateChange ==
    /\ \/ \E l \in Lambdas \ {lambda} : lambda' = l /\ UNCHANGED <<rho, cp>>
       \/ \E r \in Rhos \ {rho} : rho' = r /\ UNCHANGED <<lambda, cp>>
       \/ \E c \in Cps \ {cp} : cp' = c /\ UNCHANGED <<lambda, rho>>
    /\ last' = NoCall
    /\ Observe(TRUE)
    /\ UNCHANGED <<m_nsp, d>>

Next ==
    \/ transportModel
    \/ getMixDiffCoeffs
    \/ getMixDiffCoeffsMole
    \/ getMixDiffCoeffsMass
    \/ PhaseStateChange

Spec == Init /\ [][Next]_vars

TypeOK ==
    /\ lambda \in Lambdas /\ rho \in Rhos /\ cp \in Cps
    /\ m_nsp \in 0..MaxNsp
    /\ DOMAIN d = 0..(BufLen - 1)
\* ---- properties ---------------------------------------------------------
Species == 0..(m_nsp - 1)
Snapshot == <<lambda, rho, cp>>

\* C1: when getMixDiffCoeffs(d) has returned, every d[k] with 0 <= k < m_nsp
\* equals thermalConductivity() / (density() * cp_mass()), so all m_nsp
\* entries hold the same value.
C1_Broadcast ==
    last.op = "getMixDiffCoeffs" =>
        /\ \A k \in Species : d[k] = fdiv(lambda, fmul(rho, cp))
        /\ \A j, k \in Species : d[j] = d[k]

C1_Witness ==
    /\ last.op = "getMixDiffCoeffs"
    /\ m_nsp >= 2
    /\ d[0] \notin Fills
    /\ d[m_nsp] \in Fills

\* C2: every call of getMixDiffCoeffsMole, whatever the phase state and the
\* species count (0 included), ends in NotImplementedError and leaves the
\* caller's array as it was.
C2_MoleAlwaysFails ==
    [][getMixDiffCoeffsMole =>
          /\ last'.op = "getMixDiffCoeffsMole"
          /\ last'.status = "NotImplementedError"
          /\ d' = d]_vars

C2_Witness ==
    /\ last.op = "getMixDiffCoeffsMole"
    /\ last.status = "NotImplementedError"
    /\ m_nsp >= 1
    /\ \A k \in DOMAIN d : d[k] \in Fills

\* C3: a call of getMixDiffCoeffsMass and a call of getMixDiffCoeffs that see
\* the same phase state leave the same value in every slot k < m_nsp.
C3_MassEqualsMixDiff ==
    (/\ {ref.op, last.op} = Accessors
     /\ ref.snap = Snapshot)
        => \A k \in Species : d[k] = ref.out[k]

C3_Witness ==
    /\ ref.op = "getMixDiffCoeffs"
    /\ last.op = "getMixDiffCoeffsMass"
    /\ ref.snap = Snapshot
    /\ m_nsp >= 1
    /\ d[0] \notin Fills

\* C4: two calls of the same accessor with no change of the phase state
\* between them return the identical output vector.
C4_Idempotent ==
    (/\ ref.op \in Accessors
     /\ last.op = ref.op
     /\ stable)
        => [k \in Species |-> d[k]] = ref.out

C4_Witness ==
    /\ ref.op = "getMixDiffCoeffs"
    /\ last.op = "getMixDiffCoeffs"
    /\ stable
    /\ m_nsp >= 1

\* C5: with m_nsp = 0, getMixDiffCoeffs and getMixDiffCoeffsMass return
\* normally and write no element of the caller's array.
C5_NoSpecies ==
    [][(m_nsp = 0 /\ (getMixDiffCoeffs \/ getMixDiffCoeffsMass)) =>
          /\ d' = d
          /\ last'.status = "ok"]_vars

C5_Witness ==
    /\ m_nsp = 0
    /\ last.op = "getMixDiffCoeffsMass"
    /\ ref.op = "getMixDiffCoeffs"
    /\ last.status = "ok"
    /\ ref.status = "ok"

\* C6: transportModel() returns "UnityLewis" on every call, whatever the
\* phase state and whatever was called before, and never fails.
C6_FixedLabel ==
    /\ last.op = "transportModel" =>
          (last.value = "UnityLewis" /\ last.status = "ok")
    /\ ref.op = "transportModel" =>
          (ref.value = "UnityLewis" /\ ref.status = "ok")

C6_Witness ==
    /\ last.op = "transportModel"
    /\ ref.op = "getMixDiffCoeffsMole"
    /\ ref.snap # Snapshot

\* C7: no operation changes thermal conductivity, density, heat capacity or
\* species count; a supported accessor changes nothing but the first m_nsp
\* slots of the caller's array, and the other two operations change no slot.
C7_Frame ==
    [][(transportModel \/ getMixDiffCoeffs \/ getMixDiffCoeffsMass
            \/ getMixDiffCoeffsMole) =>
          /\ lambda' = lambda
          /\ rho' = rho
          /\ cp' = cp
          /\ m_nsp' = m_nsp
          /\ \A k \in DOMAIN d : k >= m_nsp => d'[k] = d[k]
          /\ (transportModel \/ getMixDiffCoeffsMole) => d' = d]_vars

C7_Witness ==
    /\ last.op \in Accessors
    /\ ref.op \in {"transportModel", "getMixDiffCoeffsMole"}
    /\ stable
    /\ m_nsp = 1
    /\ d[0] \notin Fills
    /\ d[1] \in Fills

\* C8: a call ends normally or in NotImplementedError, and it ends in
\* NotImplementedError exactly when it is a call of getMixDiffCoeffsMole.
C8_OnlyMoleFails ==
    \A c \in {last, ref} :
        c.op # "none" =>
            /\ c.status \in {"ok", "NotImplementedError"}
            /\ c.status = "NotImplementedError" <=> c.op = "getMixDiffCoeffsMole"

C8_Witness ==
    /\ last.op = "getMixDiffCoeffsMass"
    /\ last.status = "ok"
    /\ ref.op = "getMixDiffCoeffsMole"
    /\ ref.status = "NotImplementedError"

\* C9: when the phase state changed between two accessor calls, the later
\* call's output is the quotient of the phase state current at that call.
C9_Recomputed ==
    (/\ ref.op \in Accessors
     /\ last.op \in Accessors
     /\ ~stable)
        => \A k \in Species : d[k] = fdiv(lambda, fmul(rho, cp))

C9_Witness ==
    /\ ref.op \in Accessors
    /\ last.op \in Accessors
    /\ ~stable
    /\ m_nsp >= 1
    /\ ref.out[0] # d[0]

\* C10: two calls of the same operation that see the same phase state have
\* the same outcome (status, returned value, output vector), whatever ran
\* between them, a failed getMixDiffCoeffsMole included.
C10_NoSequencing ==
    (/\ ref.op # "none"
     /\ last.op = ref.op
     /\ ref.snap = Snapshot)
        => /\ last.status = ref.status
           /\ last.value = ref.value
           /\ last.op \in Accessors => [k \in Species |-> d[k]] = ref.out

C10_Witness ==
    /\ ref.op = "getMixDiffCoeffs"
    /\ last.op = "getMixDiffCoeffs"
    /\ ref.snap = Snapshot
    /\ moleSince
    /\ ~stable
    /\ m_nsp >= 1
====
